---- MODULE Spec2Model ----
(***************************************************************************)
(* Model of the double-mapped circular byte buffer of CircularBuffer.c and *)
(* of the producer / consumer threads of main.c that drive it.             *)
(*                                                                         *)
(* The ring is the CircularBuffer_t object: its fields, the bytes of the   *)
(* anonymous backing file, the two file mappings of the virtual window,    *)
(* the mutex and the condition variable `ready`.  Every public function is *)
(* split at its pthread calls: one step takes the mutex, one step runs the *)
(* code between lock and unlock, one step releases the mutex and returns.  *)
(***************************************************************************)
EXTENDS Integers, Sequences, FiniteSets, TLC

\* ------------------------------------------------------------------ bounds
\* getpagesize(), scaled down
PageSize == 2
\* largest size handed to init when the ring is brought up
MaxReq == 3
\* largest length handed to writeChunk / readChunk
MaxLen == 5
\* number of bytes in the producer's source buffer and in the consumer's
\* target buffer (BYTES of main.c) when the ring is up from the start
MaxBytes == 8
\* the same when the main thread brings the ring up and down meanwhile
LifeBytes == 2
\* number of calls the main thread makes
MaxCalls == 2
\* width of size_t and long, scaled down
WordBits == 4
\* number of calls the main thread makes when the calls on the ring come one
\* after the other
SeqCalls == 2
\* BYTES of main.c when the calls on the ring come one after the other
SeqBytes == 2
\* BYTES of main.c in a run of launchProducer against launchConsumer
RunBytes == 4

SIZE_MAX == 2 ^ WordBits - 1
LONG_MAX == 2 ^ (WordBits - 1) - 1
INT_MAX == 2 ^ (WordBits - 1) - 1
MAP_FAILED == "MAP_FAILED"

Threads == {"main", "prod", "cons"}
NoThread == "none"
NULL == "NULL"
\* address the kernel picks for the 2 * real_size reservation
Window == "W"

\* the producer's source buffer: pairwise distinct bytes, so that a lost, a
\* duplicated or a reordered byte shows in the consumer's buffer
source == [i \in 1..MaxBytes |-> i]

VARIABLES
    fd,            \* cbuff->fd
    buffer,        \* cbuff->buffer
    size,          \* cbuff->size
    empty,         \* cbuff->empty
    posRead,       \* cbuff->position.read
    posWrite,      \* cbuff->position.write
    mutexOwner,    \* thread holding cbuff->mutex, or NoThread
    mutexAlive,    \* FALSE once pthread_mutex_destroy ran on cbuff->mutex
    waiting,       \* threads blocked in pthread_cond_wait on cbuff->ready
    mem,           \* bytes of the backing file, mem[p + 1] is the byte at offset p
    winSize,       \* real_size of the reservation at W: the length of each half
    mapLo,         \* what is mapped at [W, W + winSize)
    mapHi,         \* what is mapped at [W + winSize, W + 2 * winSize)
    fdOpen,        \* file descriptors this process holds open for a backing file
    pc,            \* position of each thread
    length,        \* the length argument of the call a thread is in
    bytes_writen,  \* writeChunk's local
    bytes_read,    \* readChunk's local
    bytes,         \* length of the source and of the target buffer
    count,         \* launchProducer's count: bytes of source accepted so far
    target,        \* the consumer's buffer: every byte readChunk copied out, in order
    lastCopy,      \* the memcpy the running critical section performed
    inRange,       \* every writeChunk call so far had 1 <= length <= size
    error_state,   \* init's local
    result,        \* what the main thread's last call returned
    calls,         \* number of calls the main thread has made
    callLimit,     \* number of calls the main thread makes in all
    hostCalls,     \* the host calls the main thread's current call has made so far
    returned,      \* the call the main thread came back from last
    wChunk,        \* WRITE_CHUNKS of main.c (0: the producer picks every length)
    rChunk,        \* READ_CHUNKS of main.c (0: the consumer picks every length)
    fault          \* the process was killed by a signal (SIGSEGV, SIGFPE)

vars == <<fd, buffer, size, empty, posRead, posWrite, mutexOwner, mutexAlive,
          waiting, mem, winSize, mapLo, mapHi, fdOpen, pc, length, bytes_writen,
          bytes_read, bytes, count, target, lastCopy, inRange, error_state, result,
          calls, callLimit, hostCalls, returned, wChunk, rChunk, fault>>

ringVars == <<fd, buffer, size, empty, posRead, posWrite>>
hostVars == <<mem, winSize, mapLo, mapHi, fdOpen>>
\* what a run is given and never changes
runVars == <<callLimit, wChunk, rChunk>>
mainVars == <<error_state, result, calls, hostCalls, returned, runVars>>
dataVars == <<length, bytes_writen, bytes_read, bytes, count, target, lastCopy,
             inRange>>

NoCopy == [op |-> "none", off |-> 0, n |-> 0]

\* ------------------------------------------------------------ pure helpers
\* size_t remainder; a zero divisor is only evaluated on builds that do not trap
Rem(a, b) == IF b = 0 THEN a ELSE a % b

\* real_size of CircularBuffer_init
RealSize(sz) ==
    LET whole_pages == (sz \div PageSize) + (IF sz % PageSize > 0 THEN 1 ELSE 0)
    IN  whole_pages * PageSize

\* position.read after CircularBuffer_advanceReadPos
advanceReadPos_read(r, n, sz) == Rem(r + n, sz)

\* mutant: every read leaves the ring marked empty
advanceReadPos_Drains(e, r, w) == TRUE

\* empty after CircularBuffer_advanceReadPos
advanceReadPos_empty(e, r, w) == IF r = w THEN TRUE ELSE e

\* mutant: the write cursor is advanced without the wrap
advanceWritePos_NoWrap(w, n, sz) == w + n

\* position.write after CircularBuffer_advanceWritePos
advanceWritePos_write(w, n, sz) == Rem(w + n, sz)

\* empty after CircularBuffer_advanceWritePos
advanceWritePos_empty(e, n) == IF n # 0 THEN FALSE ELSE e

\* free_bytes of CircularBuffer_writeChunk
free_bytes(r, w, sz) == Rem(r + sz - w, sz)

\* mutant: a chunk of exactly free_bytes is refused
fits_Strict(e, n, r, w, sz) == e \/ n < free_bytes(r, w, sz)

\* the fit test of CircularBuffer_writeChunk
fits(e, n, r, w, sz) == e \/ n <= free_bytes(r, w, sz)

\* bytes_available of CircularBuffer_readChunk
bytes_available(r, w, sz) == Rem((w + sz) - r, sz)

\* bytes_read of CircularBuffer_readChunk
readCount(avail, n) == IF avail < n THEN avail ELSE n

\* The bytes a memcpy from &buffer[off] of n bytes delivers: virtual offset v of
\* the window shows the backing file's byte v mod size.
ReadBytes(m, sz, off, n) == [i \in 1..n |-> m[((off + i - 1) % sz) + 1]]

\* The source bytes that a memcpy to &buffer[off] stores at offset p of the
\* backing file: both halves of the window alias it.
Stored(src, sz, off, p) ==
    {src[j] : j \in {k \in 1..Len(src) : off + k - 1 < 2 * sz /\ (off + k - 1) % sz = p}}

\* The possible contents of the backing file after memcpy(&buffer[off], src, n).
\* memcpy fixes no order of its stores, so where two source bytes land on the
\* same byte of the file either may be the one that stays.
RECURSIVE WriteBytes(_, _, _, _, _)
WriteBytes(m, sz, off, src, p) ==
    IF p = sz THEN {m}
    ELSE LET c    == Stored(src, sz, off, p)
             rest == WriteBytes(m, sz, off, src, p + 1)
         IN  IF c = {} THEN rest
             ELSE {[x EXCEPT ![p + 1] = b] : x \in rest, b \in c}

\* CircularBuffer_init, lines 164-202: the four host calls that follow memfd_create, when the first
\* `made` of them succeed
HostCallsOfInit(made) ==
    <<[call |-> "ftruncate", ok |-> made >= 1],
      [call |-> "mmap", ok |-> made >= 2],
      [call |-> "mmap_lo", ok |-> made >= 3],
      [call |-> "mmap_hi", ok |-> made >= 4]>>

\* ------------------------------------------------------------------- init
\* The ring as run() of main.c hands it to the two threads: create(), then an
\* init() that succeeded.
Active ==
    /\ \E req \in 1..MaxReq :
          /\ size = RealSize(req)
          /\ winSize = RealSize(req)
          /\ mem = [p \in 1..RealSize(req) |-> 0]
    /\ fd = 3
    /\ buffer = Window
    /\ empty = TRUE
    /\ posRead = 0
    /\ posWrite = 0
    /\ mutexOwner = NoThread
    /\ mutexAlive = TRUE
    /\ waiting = {}
    /\ mapLo = "file"
    /\ mapHi = "file"
    /\ fdOpen = {0, 1, 2, 3}
    /\ pc = [t \in Threads |-> "idle"]
    /\ length = [t \in Threads |-> 0]
    /\ bytes_writen = 0
    /\ bytes_read = 0
    /\ count = 0
    /\ target = <<>>
    /\ lastCopy = NoCopy
    /\ inRange = TRUE
    /\ error_state = FALSE
    /\ result = TRUE
    /\ calls = 0
    /\ hostCalls = <<[call |-> "memfd_create", ok |-> TRUE]>> \o HostCallsOfInit(4)
    /\ returned = "init"
    /\ fault = FALSE

\* the two threads call with every length, the main thread waits for them
InitActive ==
    /\ Active
    /\ bytes = MaxBytes
    /\ callLimit = 0
    /\ wChunk = 0
    /\ rChunk = 0

\* ------------------------------------------------------------- the mutex
\* pthread_mutex_lock by thread t returns 0.  A mutex that was set up with
\* PTHREAD_MUTEX_INITIALIZER and then destroyed still locks where destroy is a
\* no-op (musl).
Lock(t) ==
    /\ mutexOwner = NoThread
    /\ mutexOwner' = t

\* pthread_mutex_lock by thread t on a destroyed mutex returns EINVAL (glibc)
LockFails(t) ==
    /\ ~mutexAlive
    /\ mutexOwner' = mutexOwner

\* pthread_mutex_unlock by thread t
Unlock(t) ==
    mutexOwner' = IF mutexOwner = t THEN NoThread ELSE mutexOwner

\* mutant: the signal is left out
Signal_Lost == waiting' = waiting

\* pthread_cond_signal( &cbuff->ready ): wakes one waiter if there is one
Signal ==
    IF waiting = {} THEN waiting' = waiting
    ELSE \E t \in waiting : waiting' = waiting \ {t}

\* A memcpy of n bytes at &cbuff->buffer[off] touches, inside the window, only
\* pages that show the backing file (a copy of no bytes touches nothing).
Mapped(off, n) ==
    \/ n = 0
    \/ /\ buffer = Window
       /\ off < winSize => mapLo = "file"
       /\ (off + n > winSize /\ off < 2 * winSize) => mapHi = "file"

\* ------------------------------------------------------------- writeChunk
\* CircularBuffer_writeChunk, line 223: the producer calls with the next n
\* bytes of its source buffer and takes the mutex.
WriteLock(t, n) ==
    /\ ~fault
    /\ UNCHANGED <<mainVars, bytes>>
    /\ pc[t] = "idle"
    /\ count + n <= bytes
    /\ Lock(t)
    /\ pc' = [pc EXCEPT ![t] = "w_body"]
    /\ length' = [length EXCEPT ![t] = n]
    /\ bytes_writen' = 0
    /\ inRange' = (inRange /\ 1 <= n /\ n <= size)
    /\ UNCHANGED <<ringVars, hostVars, mutexAlive, waiting, bytes_read, count,
                   target, lastCopy, fault>>

\* lines 225-244: the chunk fits and is copied into the window
WriteFit(t) ==
    /\ ~fault
    /\ UNCHANGED <<mainVars, bytes>>
    /\ pc[t] = "w_body"
    /\ fits(empty, length[t], posRead, posWrite, size)
    /\ Mapped(posWrite, length[t])
    /\ LET n   == length[t]
           src == [i \in 1..n |-> source[count + i]]
       IN  /\ lastCopy' = [op |-> "write", off |-> posWrite, n |-> n]
           /\ \/ /\ mem' \in WriteBytes(mem, winSize, posWrite, src, 0)
                 /\ posWrite' = advanceWritePos_write(posWrite, n, size)
                 /\ empty' = advanceWritePos_empty(empty, n)
                 /\ bytes_writen' = n
                 /\ IF n > 0 THEN Signal ELSE waiting' = waiting
                 /\ pc' = [pc EXCEPT ![t] = "w_unlock"]
                 /\ fault' = fault
              \/ \* the copy runs past the end of the window into whatever
                 \* follows it: the store may hit an unmapped page
                 /\ posWrite + n > 2 * winSize
                 /\ fault' = TRUE
                 /\ UNCHANGED <<mem, posWrite, empty, bytes_writen, waiting, pc>>
    /\ UNCHANGED <<fd, buffer, size, posRead, mutexOwner, mutexAlive, winSize,
                   mapLo, mapHi, fdOpen, length, bytes_read, count, target,
                   inRange>>

\* mutant: the write cursor is advanced although the chunk was refused
WriteNoFit_Advances(t) ==
    /\ ~fault
    /\ UNCHANGED <<mainVars, bytes>>
    /\ pc[t] = "w_body"
    /\ ~fits(empty, length[t], posRead, posWrite, size)
    /\ posWrite' = advanceWritePos_write(posWrite, length[t], size)
    /\ pc' = [pc EXCEPT ![t] = "w_unlock"]
    /\ UNCHANGED <<fd, buffer, size, empty, posRead, hostVars, mutexOwner,
                   mutexAlive, waiting, length, bytes_writen, bytes_read, count,
                   target, lastCopy, inRange, fault>>

\* lines 246-253: the chunk does not fit
WriteNoFit(t) ==
    /\ ~fault
    /\ UNCHANGED <<mainVars, bytes>>
    /\ pc[t] = "w_body"
    /\ ~fits(empty, length[t], posRead, posWrite, size)
    /\ pc' = [pc EXCEPT ![t] = "w_unlock"]
    /\ UNCHANGED <<ringVars, hostVars, mutexOwner, mutexAlive, waiting, length,
                   bytes_writen, bytes_read, count, target, lastCopy, inRange,
                   fault>>

\* lines 255-257, and line 124 of main.c: unlock, return bytes_writen, which
\* launchProducer adds to its count
WriteUnlock(t) ==
    /\ ~fault
    /\ UNCHANGED <<mainVars, bytes>>
    /\ pc[t] = "w_unlock"
    /\ Unlock(t)
    /\ count' = count + bytes_writen
    /\ pc' = [pc EXCEPT ![t] = "idle"]
    /\ lastCopy' = NoCopy
    /\ length' = [length EXCEPT ![t] = 0]
    /\ bytes_writen' = 0
    /\ UNCHANGED <<ringVars, hostVars, mutexAlive, waiting, bytes_read, target,
                   inRange, fault>>

\* -------------------------------------------------------------- readChunk
\* CircularBuffer_readChunk, lines 268-280: both pointers present, the mutex
\* is taken
ReadLock(t, n) ==
    /\ ~fault
    /\ UNCHANGED <<mainVars, bytes>>
    /\ pc[t] = "idle"
    /\ Len(target) + n <= bytes
    /\ Lock(t)
    /\ pc' = [pc EXCEPT ![t] = "r_check"]
    /\ length' = [length EXCEPT ![t] = n]
    /\ bytes_read' = 0
    /\ UNCHANGED <<ringVars, hostVars, mutexAlive, waiting, bytes_writen, count,
                   target, lastCopy, inRange, fault>>

\* lines 281-282: while( cbuff->empty ) pthread_cond_wait: the mutex is
\* released and the thread joins the waiters in one atomic step
ReadWait(t) ==
    /\ ~fault
    /\ UNCHANGED <<mainVars, bytes>>
    /\ pc[t] = "r_check"
    /\ empty
    /\ waiting' = waiting \cup {t}
    /\ Unlock(t)
    /\ pc' = [pc EXCEPT ![t] = "r_wait"]
    /\ UNCHANGED <<ringVars, hostVars, mutexAlive, length, bytes_writen,
                   bytes_read, count, target, lastCopy, inRange, fault>>

\* pthread_cond_wait: the thread was signalled
ReadWoken(t) ==
    /\ ~fault
    /\ UNCHANGED <<mainVars, bytes>>
    /\ pc[t] = "r_wait"
    /\ t \notin waiting
    /\ pc' = [pc EXCEPT ![t] = "r_relock"]
    /\ UNCHANGED <<ringVars, hostVars, mutexOwner, mutexAlive, waiting, length,
                   bytes_writen, bytes_read, count, target, lastCopy, inRange,
                   fault>>

\* pthread_cond_wait: a spurious wake-up
ReadSpurious(t) ==
    /\ ~fault
    /\ UNCHANGED <<mainVars, bytes>>
    /\ pc[t] = "r_wait"
    /\ t \in waiting
    /\ waiting' = waiting \ {t}
    /\ pc' = [pc EXCEPT ![t] = "r_relock"]
    /\ UNCHANGED <<ringVars, hostVars, mutexOwner, mutexAlive, length,
                   bytes_writen, bytes_read, count, target, lastCopy, inRange,
                   fault>>

\* pthread_cond_wait returns with the mutex held again; back to the loop test
ReadRelock(t) ==
    /\ ~fault
    /\ UNCHANGED <<mainVars, bytes>>
    /\ pc[t] = "r_relock"
    /\ Lock(t)
    /\ pc' = [pc EXCEPT ![t] = "r_check"]
    /\ UNCHANGED <<ringVars, hostVars, mutexAlive, waiting, length, bytes_writen,
                   bytes_read, count, target, lastCopy, inRange, fault>>

\* lines 285-291: the ring is not empty; copy out and advance
ReadCopy(t) ==
    /\ ~fault
    /\ UNCHANGED <<mainVars, bytes>>
    /\ pc[t] = "r_check"
    /\ ~empty
    /\ Mapped(posRead, readCount(bytes_available(posRead, posWrite, size), length[t]))
    /\ LET avail == bytes_available(posRead, posWrite, size)
           n     == readCount(avail, length[t])
           r     == advanceReadPos_read(posRead, n, size)
       IN  /\ bytes_read' = n
           /\ lastCopy' = [op |-> "read", off |-> posRead, n |-> n]
           /\ target' = target \o ReadBytes(mem, winSize, posRead, n)
           /\ posRead' = r
           /\ empty' = advanceReadPos_empty(empty, r, posWrite)
    /\ pc' = [pc EXCEPT ![t] = "r_unlock"]
    /\ UNCHANGED <<fd, buffer, size, posWrite, hostVars, mutexOwner, mutexAlive,
                   waiting, length, bytes_writen, count, inRange, fault>>

\* lines 300-314: unlock and return bytes_read
ReadUnlock(t) ==
    /\ ~fault
    /\ UNCHANGED <<mainVars, bytes>>
    /\ pc[t] = "r_unlock"
    /\ Unlock(t)
    /\ pc' = [pc EXCEPT ![t] = "idle"]
    /\ lastCopy' = NoCopy
    /\ length' = [length EXCEPT ![t] = 0]
    /\ bytes_read' = 0
    /\ UNCHANGED <<ringVars, hostVars, mutexAlive, waiting, bytes_writen, count,
                   target, inRange, fault>>

\* ------------------------------------------------------- the two threads
Producer ==
    \/ \E n \in 0..MaxLen : WriteLock("prod", n)
    \/ WriteFit("prod")
    \/ WriteNoFit("prod")
    \/ WriteUnlock("prod")

Consumer ==
    \/ \E n \in 0..MaxLen : ReadLock("cons", n)
    \/ ReadWait("cons")
    \/ ReadWoken("cons")
    \/ ReadSpurious("cons")
    \/ ReadRelock("cons")
    \/ ReadCopy("cons")
    \/ ReadUnlock("cons")

Next == Producer \/ Consumer

Spec == InitActive /\ [][Next]_vars

\* Spec under a fair scheduler: a thread inside a call keeps running, and a
\* thread that asks for the mutex again and again while it is released again
\* and again gets it.  Nothing makes a thread start a call, and nothing makes
\* a spurious wake-up happen.
SpecFair ==
    /\ Spec
    /\ WF_vars(WriteFit("prod") \/ WriteNoFit("prod"))
    /\ WF_vars(WriteUnlock("prod"))
    /\ WF_vars(ReadWait("cons") \/ ReadCopy("cons"))
    /\ WF_vars(ReadWoken("cons"))
    /\ SF_vars(ReadRelock("cons"))
    /\ WF_vars(ReadUnlock("cons"))

\* ------------------------------------------------------------------ create
\* CircularBuffer_create: the ring before any init, in a process that holds
\* its three standard descriptors
Created ==
    /\ fd = 0
    /\ buffer = NULL
    /\ size = 0
    /\ empty = TRUE
    /\ posRead = 0
    /\ posWrite = 0
    /\ mutexOwner = NoThread
    /\ mutexAlive = TRUE
    /\ waiting = {}
    /\ mem = <<>>
    /\ winSize = 0
    /\ mapLo = "none"
    /\ mapHi = "none"
    /\ fdOpen = {0, 1, 2}
    /\ pc = [t \in Threads |-> "idle"]
    /\ length = [t \in Threads |-> 0]
    /\ bytes_writen = 0
    /\ bytes_read = 0
    /\ count = 0
    /\ target = <<>>
    /\ lastCopy = NoCopy
    /\ inRange = TRUE
    /\ error_state = FALSE
    /\ result = "none"
    /\ calls = 0
    /\ hostCalls = <<>>
    /\ returned = "none"
    /\ fault = FALSE

\* the main thread makes its calls while the two threads make theirs
InitCreated ==
    /\ Created
    /\ bytes = LifeBytes
    /\ callLimit = MaxCalls
    /\ wChunk = 0
    /\ rChunk = 0

\* -------------------------------------------------------------------- init
\* the sizes the main thread asks for: none, small ones, the largest the size
\* test lets through and the first it refuses
InitSizes == (0..MaxReq) \cup {LONG_MAX, LONG_MAX + 1}

\* the descriptor the kernel hands out next: the lowest one not open
FreshFd == CHOOSE d \in 0..(Cardinality(fdOpen) + 1) :
              d \notin fdOpen /\ \A e \in 0..(d - 1) : e \in fdOpen

\* CircularBuffer_memfd_create: what it returns when the syscall returned r
memfd_create(r) == IF r >= 0 THEN (IF r <= INT_MAX THEN r ELSE -1) ELSE 0

\* CircularBuffer_init, lines 121-129: cbuff is NULL, straight to `end`
InitNull(t) ==
    /\ ~fault
    /\ pc[t] = "idle"
    /\ calls < callLimit
    /\ calls' = calls + 1
    /\ error_state' = TRUE
    /\ hostCalls' = <<>>
    /\ pc' = [pc EXCEPT ![t] = "i_end_null"]
    /\ UNCHANGED <<ringVars, hostVars, dataVars, mutexOwner, mutexAlive, waiting,
                   result, returned, runVars, fault>>

\* line 131: the mutex is taken (the result of the call is not looked at).
\* init is called on a ring that holds no buffer: one that create() made or
\* free() reset.
InitLock(t, sz) ==
    /\ ~fault
    /\ pc[t] = "idle"
    /\ buffer = NULL
    /\ calls < callLimit
    /\ Lock(t) \/ LockFails(t)
    /\ calls' = calls + 1
    /\ error_state' = FALSE
    /\ hostCalls' = <<>>
    /\ pc' = [pc EXCEPT ![t] = "i_body"]
    /\ length' = [length EXCEPT ![t] = sz]
    /\ UNCHANGED <<ringVars, hostVars, mutexAlive, waiting, bytes_writen,
                   bytes_read, bytes, count, target, lastCopy, inRange, result,
                   returned, runVars, fault>>

\* the common frame of the steps of init's body
InitFrame(t) ==
    /\ ~fault
    /\ pc[t] = "i_body"
    /\ pc' = [pc EXCEPT ![t] = "i_end"]
    /\ UNCHANGED <<empty, mutexOwner, mutexAlive, waiting, dataVars, result,
                   calls, returned, runVars, fault>>

\* mutant: a refused size takes the capacity back to 0
InitBadSize_ClearsSize(t) ==
    /\ InitFrame(t)
    /\ length[t] < 1 \/ length[t] > LONG_MAX
    /\ error_state' = TRUE
    /\ size' = 0
    /\ UNCHANGED <<fd, buffer, posRead, posWrite, hostVars, hostCalls>>

\* lines 133-141: the size is refused
InitBadSize(t) ==
    /\ InitFrame(t)
    /\ length[t] < 1 \/ length[t] > LONG_MAX
    /\ error_state' = TRUE
    /\ UNCHANGED <<fd, buffer, size, posRead, posWrite, hostVars, hostCalls>>

\* lines 143-211: the size is accepted; the host calls are made one after the
\* other and the first that fails ends the attempt.  `made` is the number of
\* host calls that succeed: memfd_create does not count, its failure is not
\* seen (line 154 tests the 0 that CircularBuffer_memfd_create returns).
InitHost(t, memfdOk, made) ==
    LET real_size == RealSize(length[t]) % (SIZE_MAX + 1)
        window    == (2 * real_size) % (SIZE_MAX + 1)
        newfd     == memfd_create(IF memfdOk THEN FreshFd ELSE -1)
        opened    == IF memfdOk THEN fdOpen \cup {FreshFd} ELSE fdOpen
        \* ftruncate takes an off_t: where off_t is a long, a length above
        \* LONG_MAX is negative and refused; where off_t is wider than long (a
        \* 32-bit build with 64-bit file offsets) such a length is taken
        canTrunc  == \E off_t_bits \in {WordBits, 2 * WordBits} :
                        real_size <= 2 ^ (off_t_bits - 1) - 1
        \* mmap refuses a length of 0
        canMap    == window > 0
    IN  /\ InitFrame(t)
        /\ ~(length[t] < 1 \/ length[t] > LONG_MAX)
        /\ newfd >= 0
        /\ fd' = newfd
        /\ fdOpen' = opened
        /\ made >= 1 => canTrunc
        /\ made >= 2 => canMap
        /\ error_state' = (made < 4)
        /\ buffer' = IF made >= 2 THEN Window
                     ELSE IF made = 1 THEN MAP_FAILED ELSE buffer
        /\ mapLo' = IF made >= 3 THEN "file"
                    ELSE IF made = 2 THEN "reserved" ELSE mapLo
        /\ mapHi' = IF made >= 4 THEN "file"
                    ELSE IF made >= 2 THEN "reserved" ELSE mapHi
        /\ winSize' = IF made >= 2 THEN real_size ELSE winSize
        /\ mem' = IF made >= 3 THEN [p \in 1..real_size |-> 0] ELSE mem
        /\ size' = IF made = 4 THEN real_size ELSE size
        /\ posWrite' = IF made = 4 THEN 0 ELSE posWrite
        /\ posRead' = IF made = 4 THEN 0 ELSE posRead
        /\ hostCalls' = <<[call |-> "memfd_create", ok |-> memfdOk]>>
                          \o SubSeq(HostCallsOfInit(made), 1,
                                    IF made < 4 THEN made + 1 ELSE 4)

\* lines 208-210: unlock and return !error_state
InitEnd(t) ==
    /\ ~fault
    /\ pc[t] = "i_end"
    /\ Unlock(t)
    /\ result' = ~error_state
    /\ returned' = "init"
    /\ error_state' = FALSE
    /\ length' = [length EXCEPT ![t] = 0]
    /\ pc' = [pc EXCEPT ![t] = "idle"]
    /\ UNCHANGED <<ringVars, hostVars, bytes_writen, bytes_read, bytes, count,
                   target, lastCopy, inRange, mutexAlive, waiting, calls,
                   hostCalls, runVars, fault>>

\* lines 208-209 with cbuff = NULL: pthread_mutex_unlock( &cbuff->mutex ) on a
\* mutex that is not there and that the thread never locked
InitEndNull(t) ==
    /\ ~fault
    /\ pc[t] = "i_end_null"
    /\ fault' = TRUE
    /\ UNCHANGED <<ringVars, hostVars, dataVars, mainVars, mutexOwner, mutexAlive,
                   waiting, pc>>

\* ------------------------------------------------------------------- empty
\* CircularBuffer_empty, lines 325-326
EmptyLock(t) ==
    /\ ~fault
    /\ pc[t] = "idle"
    /\ calls < callLimit
    /\ Lock(t) \/ LockFails(t)
    /\ calls' = calls + 1
    /\ hostCalls' = <<>>
    /\ pc' = [pc EXCEPT ![t] = "e_body"]
    /\ UNCHANGED <<ringVars, hostVars, dataVars, mutexAlive, waiting, error_state,
                   result, returned, runVars, fault>>

\* line 327
EmptyRead(t) ==
    /\ ~fault
    /\ pc[t] = "e_body"
    /\ result' = empty
    /\ pc' = [pc EXCEPT ![t] = "e_unlock"]
    /\ UNCHANGED <<ringVars, hostVars, dataVars, mutexOwner, mutexAlive, waiting,
                   error_state, calls, hostCalls, returned, runVars, fault>>

\* lines 328-331
EmptyUnlock(t) ==
    /\ ~fault
    /\ pc[t] = "e_unlock"
    /\ Unlock(t)
    /\ returned' = "empty"
    /\ pc' = [pc EXCEPT ![t] = "idle"]
    /\ UNCHANGED <<ringVars, hostVars, dataVars, mutexAlive, waiting, error_state,
                   result, calls, hostCalls, runVars, fault>>

\* -------------------------------------------------------------------- size
\* CircularBuffer_size, line 342: entered, no lock is taken
SizeCall(t) ==
    /\ ~fault
    /\ pc[t] = "idle"
    /\ calls < callLimit
    /\ calls' = calls + 1
    /\ hostCalls' = <<>>
    /\ pc' = [pc EXCEPT ![t] = "s_body"]
    /\ UNCHANGED <<ringVars, hostVars, dataVars, mutexOwner, mutexAlive, waiting,
                   error_state, result, returned, runVars, fault>>

\* lines 343-352
SizeRead(t) ==
    /\ ~fault
    /\ pc[t] = "s_body"
    /\ result' = size
    /\ returned' = "size"
    /\ pc' = [pc EXCEPT ![t] = "idle"]
    /\ UNCHANGED <<ringVars, hostVars, dataVars, mutexOwner, mutexAlive, waiting,
                   error_state, calls, hostCalls, runVars, fault>>

\* -------------------------------------------------------------------- free
\* munmap( addr, len ) can succeed: the range is page aligned and not empty
CanUnmap == buffer = Window /\ size > 0

\* the halves of the window that munmap( buffer + off, len ) takes pages from
Unmaps(off, len) ==
    [lo |-> off < winSize /\ off + len > 0,
     hi |-> off < 2 * winSize /\ off + len > winSize]

\* CircularBuffer_free, line 360: entered, no lock is taken
FreeCall(t) ==
    /\ ~fault
    /\ pc[t] = "idle"
    /\ calls < callLimit
    /\ calls' = calls + 1
    /\ hostCalls' = <<>>
    /\ pc' = [pc EXCEPT ![t] = "f_unmap2"]
    /\ UNCHANGED <<ringVars, hostVars, dataVars, mutexOwner, mutexAlive, waiting,
                   error_state, result, returned, runVars, fault>>

\* lines 361-366: munmap of the upper half, if there is a buffer
FreeUnmapHi(t, ok) ==
    /\ ~fault
    /\ pc[t] = "f_unmap2"
    /\ ok => (buffer # NULL /\ CanUnmap)
    /\ mapHi' = IF ok /\ Unmaps(size, size).hi THEN "none" ELSE mapHi
    /\ mapLo' = IF ok /\ Unmaps(size, size).lo THEN "none" ELSE mapLo
    /\ hostCalls' = IF buffer # NULL
                    THEN Append(hostCalls, [call |-> "munmap_hi", ok |-> ok])
                    ELSE hostCalls
    /\ pc' = [pc EXCEPT ![t] = "f_unmap1"]
    /\ UNCHANGED <<ringVars, mem, winSize, fdOpen, dataVars, error_state, result,
                   calls, returned, runVars, mutexOwner, mutexAlive, waiting,
                   fault>>

\* mutant: the lower half is left alone once the munmap of the upper half
\* has failed
FreeUnmapLo_GivesUp(t, ok) ==
    LET tried == buffer # NULL /\ \A i \in 1..Len(hostCalls) : hostCalls[i].ok
    IN  /\ ~fault
        /\ pc[t] = "f_unmap1"
        /\ ok => (tried /\ CanUnmap)
        /\ mapHi' = IF ok /\ Unmaps(0, size).hi THEN "none" ELSE mapHi
        /\ mapLo' = IF ok /\ Unmaps(0, size).lo THEN "none" ELSE mapLo
        /\ hostCalls' = IF tried
                        THEN Append(hostCalls, [call |-> "munmap_lo", ok |-> ok])
                        ELSE hostCalls
        /\ pc' = [pc EXCEPT ![t] = "f_close"]
        /\ UNCHANGED <<ringVars, mem, winSize, fdOpen, dataVars, error_state,
                       result, calls, returned, runVars, mutexOwner, mutexAlive,
                       waiting, fault>>

\* lines 368-373: munmap of the lower half, if there is a buffer
FreeUnmapLo(t, ok) ==
    /\ ~fault
    /\ pc[t] = "f_unmap1"
    /\ ok => (buffer # NULL /\ CanUnmap)
    /\ mapHi' = IF ok /\ Unmaps(0, size).hi THEN "none" ELSE mapHi
    /\ mapLo' = IF ok /\ Unmaps(0, size).lo THEN "none" ELSE mapLo
    /\ hostCalls' = IF buffer # NULL
                    THEN Append(hostCalls, [call |-> "munmap_lo", ok |-> ok])
                    ELSE hostCalls
    /\ pc' = [pc EXCEPT ![t] = "f_close"]
    /\ UNCHANGED <<ringVars, mem, winSize, fdOpen, dataVars, error_state, result,
                   calls, returned, runVars, mutexOwner, mutexAlive, waiting,
                   fault>>

\* mutant: the descriptor is closed whether there is a buffer or not
FreeClose_Unguarded(t) ==
    /\ ~fault
    /\ pc[t] = "f_close"
    /\ fdOpen' = fdOpen \ {fd}
    /\ hostCalls' = Append(hostCalls, [call |-> "close", ok |-> fd \in fdOpen])
    /\ pc' = [pc EXCEPT ![t] = "f_reset"]
    /\ UNCHANGED <<ringVars, mem, winSize, mapLo, mapHi, dataVars, error_state,
                   result, calls, returned, runVars, mutexOwner, mutexAlive,
                   waiting, fault>>

\* lines 375-380: close of the descriptor, if there is a buffer
FreeClose(t) ==
    /\ ~fault
    /\ pc[t] = "f_close"
    /\ fdOpen' = IF buffer # NULL THEN fdOpen \ {fd} ELSE fdOpen
    /\ hostCalls' = IF buffer # NULL
                    THEN Append(hostCalls, [call |-> "close", ok |-> fd \in fdOpen])
                    ELSE hostCalls
    /\ pc' = [pc EXCEPT ![t] = "f_reset"]
    /\ UNCHANGED <<ringVars, mem, winSize, mapLo, mapHi, dataVars, error_state,
                   result, calls, returned, runVars, mutexOwner, mutexAlive,
                   waiting, fault>>

\* lines 382-387: the mutex and the condition are destroyed (destroy refuses a
\* mutex that is held), four fields are reset
FreeReset(t) ==
    /\ ~fault
    /\ pc[t] = "f_reset"
    /\ mutexAlive' = IF mutexOwner = NoThread THEN FALSE ELSE mutexAlive
    /\ fd' = 0
    /\ buffer' = NULL
    /\ posRead' = 0
    /\ posWrite' = 0
    /\ returned' = "free"
    /\ pc' = [pc EXCEPT ![t] = "idle"]
    /\ UNCHANGED <<size, empty, hostVars, dataVars, error_state, result, calls,
                   hostCalls, runVars, mutexOwner, waiting, fault>>

\* ------------------------------------------- calls on a ring that is not up
\* writeChunk, line 223, on a destroyed mutex: the call goes on without it
WriteLockFails(t, n) ==
    /\ ~fault
    /\ UNCHANGED <<mainVars, bytes>>
    /\ pc[t] = "idle"
    /\ count + n <= bytes
    /\ LockFails(t)
    /\ pc' = [pc EXCEPT ![t] = "w_body"]
    /\ length' = [length EXCEPT ![t] = n]
    /\ bytes_writen' = 0
    /\ inRange' = (inRange /\ 1 <= n /\ n <= size)
    /\ UNCHANGED <<ringVars, hostVars, mutexAlive, waiting, bytes_read, count,
                   target, lastCopy, fault>>

\* readChunk, lines 280 and 307-314, on a destroyed mutex: returns 0
ReadLockFails(t, n) ==
    /\ ~fault
    /\ UNCHANGED <<mainVars, bytes>>
    /\ pc[t] = "idle"
    /\ Len(target) + n <= bytes
    /\ LockFails(t)
    /\ bytes_read' = 0
    /\ UNCHANGED <<ringVars, hostVars, mutexAlive, waiting, length, bytes_writen,
                   count, target, lastCopy, inRange, pc, fault>>

\* lines 225 and 285, 66 and 78: a remainder by a size of 0 traps
ZeroDivide(t) ==
    /\ ~fault
    /\ size = 0
    /\ pc[t] = "w_body" \/ (pc[t] = "r_check" /\ ~empty)
    /\ fault' = TRUE
    /\ UNCHANGED <<ringVars, hostVars, dataVars, mainVars, mutexOwner, mutexAlive,
                   waiting, pc>>

\* lines 232 and 290: the memcpy touches a page that does not show the
\* backing file (no buffer, a half unmapped or still reserved without access)
CopyUnmapped(t) ==
    /\ ~fault
    /\ \/ /\ pc[t] = "w_body"
          /\ fits(empty, length[t], posRead, posWrite, size)
          /\ ~Mapped(posWrite, length[t])
       \/ /\ pc[t] = "r_check"
          /\ ~empty
          /\ ~Mapped(posRead, readCount(bytes_available(posRead, posWrite, size), length[t]))
    /\ fault' = TRUE
    /\ UNCHANGED <<ringVars, hostVars, dataVars, mainVars, mutexOwner, mutexAlive,
                   waiting, pc>>

Main ==
    \/ InitNull("main")
    \/ \E sz \in InitSizes : InitLock("main", sz)
    \/ InitBadSize("main")
    \/ \E memfdOk \in BOOLEAN, made \in 0..4 : InitHost("main", memfdOk, made)
    \/ InitEnd("main")
    \/ InitEndNull("main")
    \/ EmptyLock("main")
    \/ EmptyRead("main")
    \/ EmptyUnlock("main")
    \/ SizeCall("main")
    \/ SizeRead("main")
    \/ FreeCall("main")
    \/ \E ok \in BOOLEAN : FreeUnmapHi("main", ok)
    \/ \E ok \in BOOLEAN : FreeUnmapLo("main", ok)
    \/ FreeClose("main")
    \/ FreeReset("main")

Faults ==
    \/ \E n \in 0..MaxLen : WriteLockFails("prod", n)
    \/ \E n \in 0..MaxLen : ReadLockFails("cons", n)
    \/ \E t \in {"prod", "cons"} : ZeroDivide(t)
    \/ \E t \in {"prod", "cons"} : CopyUnmapped(t)

NextLife == Main \/ Producer \/ Consumer \/ Faults

\* Every call of the interface, by three threads, on a ring that create() made
SpecLife == InitCreated /\ [][NextLife]_vars

\* ------------------------------------------- the calls one after the other
\* no other thread is inside a call: the others are between two calls, or
\* asleep in the pthread_cond_wait of readChunk
Quiet(t) == \A u \in Threads \ {t} : pc[u] \in {"idle", "r_wait"}

\* the ring that create() made, or that an init() that succeeded has brought
\* up since, for calls that come one at a time
InitSeq ==
    /\ Created \/ Active
    /\ bytes = SeqBytes
    /\ callLimit = SeqCalls
    /\ wChunk = 0
    /\ rChunk = 0

NextSeq ==
    \/ /\ Quiet("main")
       /\ Main
    \/ /\ Quiet("prod")
       /\ \/ Producer
          \/ \E n \in 0..MaxLen : WriteLockFails("prod", n)
          \/ ZeroDivide("prod")
          \/ CopyUnmapped("prod")
    \/ /\ Quiet("cons")
       /\ \/ Consumer
          \/ \E n \in 0..MaxLen : ReadLockFails("cons", n)
          \/ ZeroDivide("cons")
          \/ CopyUnmapped("cons")

\* Every call of the interface, no two calls at the same time
SpecSeq == InitSeq /\ [][NextSeq]_vars

\* ------------------------------------------------------- the run of main.c
\* run() of main.c: the ring is up, BYTES bytes are to go through it in chunks
\* of WRITE_CHUNKS and READ_CHUNKS bytes, both within the capacity
InitRun ==
    /\ Active
    /\ bytes = RunBytes
    /\ callLimit = 0
    /\ wChunk \in 1..size
    /\ rChunk \in 1..size

\* to_write of launchProducer, to_read of launchConsumer
to_transfer(done, chunk) ==
    IF bytes - done < chunk THEN bytes - done ELSE chunk

\* launchProducer, lines 119-124: one more turn of the loop
RunWrite(t) ==
    /\ count < bytes
    /\ WriteLock(t, to_transfer(count, wChunk))

\* launchConsumer, lines 137-142: one more turn of the loop
RunRead(t) ==
    /\ Len(target) < bytes
    /\ ReadLock(t, to_transfer(Len(target), rChunk))

launchProducer ==
    \/ RunWrite("prod")
    \/ WriteFit("prod")
    \/ WriteNoFit("prod")
    \/ WriteUnlock("prod")

launchConsumer ==
    \/ RunRead("cons")
    \/ ReadWait("cons")
    \/ ReadWoken("cons")
    \/ ReadSpurious("cons")
    \/ ReadRelock("cons")
    \/ ReadCopy("cons")
    \/ ReadUnlock("cons")

NextRun == launchProducer \/ launchConsumer

\* The run under a fair scheduler: both threads keep running, each gets the
\* mutex when it asks for it again and again, and nothing makes a spurious
\* wake-up happen.
SpecRun ==
    /\ InitRun
    /\ [][NextRun]_vars
    /\ SF_vars(RunWrite("prod"))
    /\ WF_vars(WriteFit("prod") \/ WriteNoFit("prod"))
    /\ WF_vars(WriteUnlock("prod"))
    /\ SF_vars(RunRead("cons"))
    /\ WF_vars(ReadWait("cons") \/ ReadCopy("cons"))
    /\ WF_vars(ReadWoken("cons"))
    /\ SF_vars(ReadRelock("cons"))
    /\ WF_vars(ReadUnlock("cons"))

\* ------------------------------------------------------------ properties
\* bytes of source that writeChunk has accepted so far (calls that returned
\* their length, the one in flight included once its copy is done)
Accepted == count + (IF pc["prod"] = "w_unlock" THEN bytes_writen ELSE 0)

\* the producer's step from lock to unlock: the critical section of writeChunk
WriteStep == pc["prod"] = "w_body" /\ pc'["prod"] = "w_unlock"

\* C1: as long as every writeChunk call had 1 <= n <= capacity, the bytes the
\* consumer has read are a prefix of the bytes the producer had accepted:
\* nothing is lost, duplicated or reordered.
C1_FifoPrefix ==
    inRange =>
        /\ Len(target) <= Accepted
        /\ \A i \in 1..Len(target) : target[i] = source[i]

\* C2: a readChunk with length n > 0 that got past the lock returns a count
\* in 1..n, never 0 (writes kept to 1 <= n <= capacity).
C2_ReadNeverZero ==
    (inRange /\ pc["cons"] = "r_unlock" /\ length["cons"] > 0)
        => (1 <= bytes_read /\ bytes_read <= length["cons"])

\* C3: writeChunk is all-or-nothing.  A call that returns, returns n when the
\* ring was empty or n <= (r + C - w) mod C, and then the n bytes are in the
\* ring at the write cursor, the write cursor moved by n modulo C and, for
\* n > 0, the empty flag is cleared; it returns 0 otherwise; it never returns
\* anything strictly between 0 and n.
C3_AllOrNothing ==
    [][WriteStep =>
        LET n     == length["prod"]
            room  == (posRead + size - posWrite) % size
            ok    == empty \/ n <= room
            at(i) == ((posWrite + i) % size) + 1
        IN  /\ bytes_writen' \in {0, n}
            /\ ok => /\ bytes_writen' = n
                     /\ posWrite' = (posWrite + n) % size
                     /\ (n > 0 => ~empty')
                     /\ (n = 0 => empty' = empty)
                     /\ posRead' = posRead
                     /\ n <= size =>
                          /\ \A i \in 0..(n - 1) : mem'[at(i)] = source[count + i + 1]
                          /\ \A p \in 1..size :
                                (\A i \in 0..(n - 1) : at(i) # p) => mem'[p] = mem[p]
            /\ ~ok => bytes_writen' = 0
    ]_vars

\* C3 witness: an accepted chunk that crosses the physical end of the ring
C3_Witness ==
    /\ pc["prod"] = "w_unlock"
    /\ length["prod"] > 1
    /\ bytes_writen = length["prod"]
    /\ length["prod"] <= size
    /\ lastCopy.off + lastCopy.n > size
    /\ posRead # posWrite

\* C4: a writeChunk that returns 0 changed neither cursor, nor the empty flag,
\* nor the capacity, nor any byte of the ring; its lock and unlock steps
\* change none of them either.
C4_NoFitPurity ==
    [][(pc["prod"] # pc'["prod"] /\ ~(WriteStep /\ bytes_writen' > 0))
          => UNCHANGED <<posRead, posWrite, empty, size, mem>>]_vars

\* C4 witness: a refused chunk on a ring that holds unread bytes
C4_Witness ==
    /\ pc["prod"] = "w_unlock"
    /\ length["prod"] > 0
    /\ bytes_writen = 0
    /\ ~empty
    /\ posRead # posWrite

\* C5: every memcpy of writeChunk and readChunk has length <= capacity and
\* stays inside the window [0, 2 * capacity).
C5_CopyBounds ==
    lastCopy.op # "none" =>
        /\ lastCopy.n <= size
        /\ lastCopy.off + lastCopy.n <= 2 * size

\* C6: with available_bytes as readChunk computes it (0 when empty) and
\* free_bytes as writeChunk computes it (capacity when empty), the two add up
\* to the capacity, available_bytes = 0 iff e, free_bytes = 0 iff r = w and
\* not e (writes kept to 1 <= n <= capacity).
C6_Accounting ==
    inRange =>
        LET avail == IF empty THEN 0 ELSE ((posWrite + size) - posRead) % size
            room  == IF empty THEN size ELSE (posRead + size - posWrite) % size
        IN  /\ avail + room = size
            /\ (avail = 0) <=> empty
            /\ (room = 0) <=> (posRead = posWrite /\ ~empty)

\* C7: both cursors stay in [0, capacity) and the capacity never changes.
C7_CursorBounds ==
    /\ [](/\ 0 <= posRead /\ posRead < size
          /\ 0 <= posWrite /\ posWrite < size)
    /\ [][size' = size]_vars

\* C7 witness: the write cursor has wrapped past the end and sits below the
\* read cursor
C7_Witness == ~empty /\ posWrite < posRead /\ pc["prod"] = "idle" /\ count > size

\* a readChunk that found the ring empty and has not yet got the mutex back
Blocked == pc["cons"] \in {"r_wait", "r_relock"}

\* C8: a readChunk on an empty ring tests the empty flag with the mutex held,
\* neither copies nor returns while the flag is true, and once a writeChunk
\* of m > 0 bytes has cleared the flag the blocked readChunk returns.
C8_BlockingRead ==
    /\ [](pc["cons"] = "r_check" => mutexOwner = "cons")
    /\ [][((pc["cons"] = "r_check" /\ empty) \/ Blocked)
            => /\ pc'["cons"] \in {"r_check", "r_wait", "r_relock"}
               /\ target' = target
               /\ posRead' = posRead]_vars
    /\ ((Blocked /\ ~empty) ~> (pc["cons"] = "idle"))

\* C8 witness: the consumer is blocked, still among the waiters, while the
\* producer has deposited bytes and not yet released the mutex
C8_Witness ==
    /\ pc["cons"] = "r_wait"
    /\ pc["prod"] = "w_unlock"
    /\ bytes_writen > 0
    /\ ~empty
    /\ length["cons"] > 0

\* the positions between the entry and the exit of a call at which the thread
\* reads or writes the ring (a thread in pthread_cond_wait is not at one)
InsidePcs == {"w_body", "w_unlock", "r_check", "r_unlock", "i_body", "i_end",
              "e_body", "e_unlock", "s_body", "f_unmap2", "f_unmap1", "f_close",
              "f_reset"}

\* the positions at which the next thing a thread does is pthread_mutex_unlock
UnlockPcs == {"w_unlock", "r_unlock", "e_unlock", "i_end", "i_end_null"}

\* C9: a thread that is inside initialize, writeChunk, readChunk, size, empty
\* or free holds the mutex, so no two threads are inside at once and the
\* fields are only read and written under the mutex.
C9_GateDiscipline ==
    \A t \in Threads : pc[t] \in InsidePcs => mutexOwner = t

\* C10: a thread that has returned from a call does not hold the mutex, and a
\* thread that is about to unlock the mutex holds it.
C10_MutexReleased ==
    \A t \in Threads :
        /\ pc[t] = "idle" => mutexOwner # t
        /\ pc[t] \in UnlockPcs => mutexOwner = t

\* the main thread's step out of init, out of free
InitReturns == pc["main"] = "i_end" /\ pc'["main"] = "idle"
FreeReturns == pc["main"] = "f_reset" /\ pc'["main"] = "idle"

\* the call the main thread came back from last was an init that succeeded:
\* the ring is active
WasActive == returned = "init" /\ result = TRUE

\* the main thread's current call has made the host call `name`, which failed
Failed(name) ==
    \E i \in 1..Len(hostCalls) : hostCalls[i].call = name /\ ~hostCalls[i].ok

\* the process holds its three standard descriptors at most
NoHandle == fdOpen \subseteq {0, 1, 2}

\* C11: when free returns from a ring that was active (empty, holding unread
\* bytes or full), the capacity is 0, the empty flag is true, both cursors are
\* 0, there is no buffer, no descriptor of a backing file is open and neither
\* half is mapped (but a half whose munmap the host refused).
C11_FreeUninitialises ==
    [][(FreeReturns /\ WasActive) =>
        /\ size' = 0
        /\ empty' = TRUE
        /\ posRead' = 0
        /\ posWrite' = 0
        /\ buffer' = NULL
        /\ NoHandle'
        /\ mapHi' = "none" \/ Failed("munmap_hi")
        /\ mapLo' = "none" \/ Failed("munmap_lo")
    ]_vars

\* the positions of the main thread inside free
FreePcs == {"f_unmap2", "f_unmap1", "f_close", "f_reset"}

\* C12: a free that follows a free, and a free on a ring that create() made and
\* no init touched, makes no host call (no munmap, no close) and leaves what
\* the host holds as it was; the free that follows a free changes no field of
\* the ring either, so two frees end in the state one free ends in.
C12_IdempotentFree ==
    [][(pc["main"] \in FreePcs /\ returned \in {"free", "none"}) =>
        /\ hostCalls' = <<>>
        /\ UNCHANGED hostVars
        /\ returned = "free" => UNCHANGED <<ringVars, mutexAlive>>
    ]_vars

\* C12 witness: the second of two frees is about to return, on a ring that
\* held unread bytes when the first one ran
C12_Witness ==
    /\ pc["main"] = "f_reset"
    /\ returned = "free"
    /\ calls = 2
    /\ ~empty
    /\ count > Len(target)

\* the step of init from the size test to `end`
InitStep == pc["main"] = "i_body" /\ pc'["main"] = "i_end"

\* the main thread's current call has made the host call `name`
Attempted(name) == \E i \in 1..Len(hostCalls) : hostCalls[i].call = name

\* C13: for a requested size s with 1 <= s <= SIZE_MAX / 2, an init that
\* succeeds sets the capacity to the smallest multiple c of the page size with
\* c >= s (c mod p = 0, c - s < p), and when init comes to reserve the window
\* its length 2 * c does not wrap around size_t.
C13_CapacityRounding ==
    [][(InitStep /\ 1 <= length["main"] /\ length["main"] <= SIZE_MAX \div 2) =>
        LET s == length["main"]
            c == CHOOSE x \in 0..(SIZE_MAX + PageSize) :
                     x % PageSize = 0 /\ x >= s /\ x - s < PageSize
        IN  /\ ~error_state' => size' = c
            /\ Attempted("mmap")' => 2 * c <= SIZE_MAX
    ]_vars

\* C14: when an init that succeeded returns, on a ring that create() made or
\* that free() took down after any use, the ring is active (a buffer, a
\* capacity above 0), both cursors are 0 and the empty flag is true.
C14_InitPostcondition ==
    [][(InitReturns /\ ~error_state /\ ~Failed("memfd_create")) =>
        /\ buffer' = Window
        /\ size' > 0
        /\ posRead' = 0
        /\ posWrite' = 0
        /\ empty' = TRUE
    ]_vars

\* the only call the main thread has made is an init, on the ring that
\* create() made, and it failed
FailedFresh == calls = 1 /\ returned = "init" /\ result = FALSE

\* C15: after a failed init on a ring that create() made, the capacity is 0
\* and the empty flag true, and they stay so whatever writeChunk and readChunk
\* calls follow: no such call faults, none blocks, none copies a byte in or
\* out, none moves a cursor.
C15_FailedInitNoOps ==
    FailedFresh =>
        /\ size = 0
        /\ empty
        /\ posRead = 0
        /\ posWrite = 0
        /\ ~fault
        /\ pc["cons"] # "r_wait"
        /\ count = 0
        /\ target = <<>>

\* neither half of a window is mapped or reserved
NoWindow == mapLo = "none" /\ mapHi = "none"

\* C16: when an init on a ring that create() made has failed, no descriptor of
\* a backing file is left open and no range is left reserved or mapped; and
\* when the free that follows a failed init returns, the same is true and that
\* free has closed no descriptor that was not open.
C16_NoLeakOnFailure ==
    /\ [](FailedFresh => (NoHandle /\ NoWindow))
    /\ [][(FreeReturns /\ returned = "init" /\ result = FALSE) =>
            (NoHandle' /\ NoWindow' /\ ~Failed("close"))]_vars

\* C17: when the host call that creates the backing file fails, init goes to
\* `end` with error_state set, having made no ftruncate and no mmap, and
\* cbuff->fd is not a descriptor that is open in the process (none of which
\* the ring created).
C17_BackingFailureReported ==
    [][(InitStep /\ Failed("memfd_create")') =>
        /\ error_state'
        /\ ~Attempted("ftruncate")'
        /\ ~Attempted("mmap")'
        /\ fd' \notin fdOpen'
    ]_vars

\* the consumer's step from the loop test to unlock: the copy of readChunk
ReadStep == pc["cons"] = "r_check" /\ pc'["cons"] = "r_unlock"

\* C18: a readChunk with length 0 on a ring that is not empty (full or not,
\* writes kept to 1 <= n <= capacity) returns 0 and leaves both cursors and
\* the empty flag as they were; so does a writeChunk with length 0, which
\* wakes no waiter either.
C18_ZeroLengthNoOp ==
    [][/\ (ReadStep /\ length["cons"] = 0 /\ inRange) =>
            /\ bytes_read' = 0
            /\ UNCHANGED <<posRead, posWrite, empty>>
       /\ (WriteStep /\ length["prod"] = 0) =>
            /\ bytes_writen' = 0
            /\ UNCHANGED <<posRead, posWrite, empty, waiting>>
    ]_vars

\* the names of the host calls the main thread's current call has made
CallNames == [i \in 1..Len(hostCalls) |-> hostCalls[i].call]

\* the host calls a free has behind it at each of its positions
TeardownOrder ==
    [f_unmap2 |-> <<>>,
     f_unmap1 |-> <<"munmap_hi">>,
     f_close  |-> <<"munmap_hi", "munmap_lo">>,
     f_reset  |-> <<"munmap_hi", "munmap_lo", "close">>]

\* C19: a free on an active ring calls munmap on the upper half, then munmap
\* on the lower half, then close, each once and whether or not an earlier one
\* failed; and when it closes the descriptor, a half that still shows the
\* file is one whose munmap was made and failed.
C19_TeardownOrder ==
    /\ []((pc["main"] \in FreePcs /\ WasActive)
            => CallNames = TeardownOrder[pc["main"]])
    /\ [][(pc["main"] = "f_close" /\ pc'["main"] = "f_reset" /\ WasActive) =>
            /\ fd \in fdOpen /\ fd \notin fdOpen'
            /\ mapHi = "file" => Failed("munmap_hi")
            /\ mapLo = "file" => Failed("munmap_lo")
       ]_vars

\* C19 witness: a free on a ring that holds unread bytes has closed the
\* descriptor after the munmap of the upper half failed and that of the lower
\* half succeeded
C19_Witness ==
    /\ pc["main"] = "f_reset"
    /\ WasActive
    /\ ~empty
    /\ Failed("munmap_hi")
    /\ ~Failed("munmap_lo")
    /\ mapHi = "file"
    /\ mapLo = "none"
    /\ fd \notin fdOpen

\* both loops of main.c have ended: every byte of source was accepted and as
\* many bytes were read
RunDone ==
    /\ pc["prod"] = "idle"
    /\ pc["cons"] = "idle"
    /\ count = bytes
    /\ Len(target) = bytes

\* C20: with chunk sizes 1 <= WRITE_CHUNKS, READ_CHUNKS <= capacity, under a
\* fair scheduler both loops of main.c end, after which the consumer's buffer
\* holds the BYTES bytes of the producer's; and what the consumer holds is at
\* every moment the front of the producer's buffer.
C20_RunCompletes ==
    /\ [](\A i \in 1..Len(target) : target[i] = source[i])
    /\ <>[](RunDone /\ \A i \in 1..bytes : target[i] = source[i])

\* a requested size of 0, or one above SIZE_MAX / 2
BadSize(sz) == sz < 1 \/ sz > SIZE_MAX \div 2

\* C21: an init called with size 0 or with a size above SIZE_MAX / 2 changes
\* no field of the ring on any of its steps (capacity, cursors, empty flag,
\* descriptor, buffer address), makes no host call, leaves what the host
\* holds as it was, and returns false.
C21_BadSizeRejected ==
    [][/\ (pc'["main"] = "i_body" /\ BadSize(length'["main"])) =>
            (UNCHANGED <<ringVars, hostVars>> /\ hostCalls' = <<>>)
       /\ (pc["main"] \in {"i_body", "i_end"} /\ BadSize(length["main"])) =>
            (UNCHANGED <<ringVars, hostVars>> /\ hostCalls' = <<>>)
       /\ (InitStep /\ BadSize(length["main"])) => error_state'
       /\ (InitReturns /\ BadSize(length["main"])) => result' = FALSE
    ]_vars

\* C21 witness: a size above the maximum has been refused on a ring that a
\* free took down while it held unread bytes
C21_Witness ==
    /\ pc["main"] = "i_end"
    /\ length["main"] > SIZE_MAX \div 2
    /\ error_state
    /\ returned = "free"
    /\ size > 0
    /\ ~empty

\* C22: whenever the empty flag is true the two cursors coincide (r # w
\* implies the flag is false), so the `empty ||` test of writeChunk is only
\* passed on the flag with r = w.
C22_EmptyImpliesEqual == empty => posRead = posWrite

\* C22 witness: writeChunk is about to pass its test on the empty flag alone,
\* on a ring that was filled and drained before, away from offset 0
C22_Witness ==
    /\ pc["prod"] = "w_body"
    /\ empty
    /\ length["prod"] > free_bytes(posRead, posWrite, size)
    /\ length["prod"] <= size
    /\ posRead = posWrite
    /\ posRead > 0
    /\ Len(target) > 0
    /\ inRange

====
